---- MODULE Spec2Model ----
(***************************************************************************)
(* Bar trace calculation (src/traces/bar/calc.js) and the pixel geometry   *)
(* of axis-referenced objects (test/jasmine/assets/domain_ref/             *)
(* components.js) as one state machine.  The state is the graph div's      *)
(* layout, the last function applied, its arguments, its result and the    *)
(* collaborator calls it made.                                             *)
(*                                                                         *)
(* Coordinates are fixed point: data values, fractions and sizes are in    *)
(* thousandths, pixels in 1/900 pixel.  The mock's axis spans and ranges   *)
(* are such that every mapping below is an exact division.                 *)
(***************************************************************************)
EXTENDS Integers, Sequences, FiniteSets, TLC

\* layout: gd.layout, the axis containers by name
\* fn, args: the function applied last and its arguments
\* res: what it computed, its return value and the locals it was built from
\* calls: the collaborator calls it made, in order
VARIABLES layout, fn, args, res, calls, pc, queue, local

vars == <<layout, fn, args, res, calls, pc, queue, local>>

(***************************************************************************)
(* Bounds                                                                  *)
(***************************************************************************)
\* longest data array of a trace
MaxLen == 3
\* the tasks the event loop holds at most
MaxQueue == 2

(***************************************************************************)
(* Javascript values                                                       *)
(***************************************************************************)
Num(n) == [t |-> "number", v |-> n]
Str(s) == [t |-> "string", v |-> s]
\* a string the code takes apart, as its sequence of characters
CStr(s) == [t |-> "chars", v |-> s]
Arr(a) == [t |-> "array", v |-> a]
Undefined == [t |-> "undefined"]
Null == [t |-> "null"]
NaN == [t |-> "NaN"]

\* ToBoolean
Truthy(x) ==
    CASE x.t = "undefined" -> FALSE
      [] x.t = "null" -> FALSE
      [] x.t = "NaN" -> FALSE
      [] x.t = "number" -> x.v # 0
      [] x.t = "string" -> x.v # ""
      [] x.t = "chars" -> x.v # <<>>
      [] OTHER -> TRUE

\* a slip: the default taken whatever the trace names
Or_default(a, b) == b

\* a || b
Or(a, b) == IF Truthy(a) THEN a ELSE b

\* String(x)
String(x) ==
    CASE x.t = "undefined" -> "undefined"
      [] x.t = "null" -> "null"
      [] x.t = "NaN" -> "NaN"
      [] x.t = "number" -> ToString(x.v)
      [] x.t = "string" -> x.v

\* a[i] on a Javascript array, i counted from 1 here: undefined past the end
Idx(a, i) == IF i \in DOMAIN a.v THEN a.v[i] ELSE Undefined

Min(a, b) == IF a < b THEN a ELSE b

(***************************************************************************)
(* Strings that the code takes apart are sequences of characters           *)
(***************************************************************************)
X == <<"x">>
Y == <<"y">>
X2 == <<"x", "2">>
Y2 == <<"y", "2">>
X3 == <<"x", "3">>
Y3 == <<"y", "3">>
PAPER == <<"p", "a", "p", "e", "r">>
PIXEL == <<"p", "i", "x", "e", "l">>
DOMAIN_SUFFIX == <<" ", "d", "o", "m", "a", "i", "n">>
AXIS == <<"a", "x", "i", "s">>

\* does s end with suffix
EndsWith(s, suffix) ==
    /\ Len(s) >= Len(suffix)
    /\ SubSeq(s, Len(s) - Len(suffix) + 1, Len(s)) = suffix

\* s.split(' ')[0]
RECURSIVE BeforeSpace(_)
BeforeSpace(s) ==
    IF s = <<>> \/ Head(s) = " " THEN <<>> ELSE <<Head(s)>> \o BeforeSpace(Tail(s))

\* axis_ids.id2name: 'x2' and 'x2 domain' name the layout container xaxis2
id2name(id) ==
    LET axid == BeforeSpace(id)
    IN  <<Head(axid)>> \o AXIS \o Tail(axid)

(***************************************************************************)
(* The mock layout: four cartesian axes on one canvas                      *)
(***************************************************************************)
AxisNames == {id2name(X), id2name(Y), id2name(X2), id2name(Y2)}

\* plotting canvas per axis letter, in pixels: origin (left or top margin) and size
PlotOrigin(letter) == IF letter = "x" THEN 40 ELSE 20
PlotSize(letter) == IF letter = "x" THEN 600 ELSE 400

\* range in data units and domain as a fraction of the canvas, in thousandths
testMock ==
    [n \in AxisNames |->
        CASE n = id2name(X) -> [type |-> "linear", range |-> <<1000, 10000>>, domain |-> <<0, 450>>]
          [] n = id2name(X2) -> [type |-> "linear", range |-> <<100, 1000>>, domain |-> <<100, 600>>]
          [] n = id2name(Y) -> [type |-> "linear", range |-> <<1000, 10000>>, domain |-> <<0, 500>>]
          [] n = id2name(Y2) -> [type |-> "linear", range |-> <<100, 1000>>, domain |-> <<550, 1000>>]]

(***************************************************************************)
(* src/traces/bar/calc.js                                                  *)
(***************************************************************************)
\* Axes.getFromId: the axis of the layout, or failure for an unknown id
getFromId(gd, id) ==
    IF id2name(id.v) \in DOMAIN gd
    THEN [ok |-> TRUE, name |-> id2name(id.v), ax |-> gd[id2name(id.v)]]
    ELSE [ok |-> FALSE, name |-> id2name(id.v)]

\* the axis's data coercion of one value: numbers pass, the rest is BADNUM
d2c(v) == IF v.t = "number" THEN v ELSE Undefined

\* ax.makeCalcdata(trace, letter, msUTC)
makeCalcdata(ax, trace, letter, msUTC) ==
    LET data == trace[letter]
    IN  Arr([i \in 1..Len(data.v) |-> d2c(data.v[i])])

\* the call as the axis sees it
makeCalcdataCall(axname, letter, msUTC) ==
    [fn |-> "makeCalcdata", ax |-> axname, letter |-> letter, msUTC |-> msUTC]

\* colorscale/helpers.hasColorscale(trace, containerStr)
hasColorscale(trace, containerStr) ==
    IF containerStr = "marker"
    THEN Truthy(trace.marker.colorscale)
    ELSE Truthy(trace.marker.line.colorscale)

\* a slip: the container tag of the marker on every call
colorscaleCalc_markerTag(vals, containerStr, cLetter) ==
    [fn |-> "colorscaleCalc", vals |-> vals, containerStr |-> "marker", cLetter |-> cLetter]

\* colorscaleCalc(gd, trace, {vals, containerStr, cLetter}): the call as made
colorscaleCalc(vals, containerStr, cLetter) ==
    [fn |-> "colorscaleCalc", vals |-> vals, containerStr |-> containerStr, cLetter |-> cLetter]

\* a slip: a base of 0 taken for no base
msUTCOf_truthy(trace) == Truthy(trace.base)

\* var msUTC = !!(trace.base || trace.base === 0)
msUTCOf(trace) == Truthy(trace.base) \/ trace.base = Num(0)

\* a slip: everything but 'v' taken as horizontal
isHorizontal_notV(trace) == trace.orientation # Str("v")

\* if(trace.orientation === 'h')
isHorizontal(trace) == trace.orientation = Str("h")

\* a slip: the longer of the two arrays
serieslenOf_longer(pos, size) ==
    IF Len(pos.v) > Len(size.v) THEN Len(pos.v) ELSE Len(size.v)

\* Math.min(pos.length, size.length)
serieslenOf(pos, size) == Min(Len(pos.v), Len(size.v))

\* a slip: the id of the next point
cdRecord_nextId(trace, pos, size, i) ==
    IF Truthy(trace.ids)
    THEN [p |-> Idx(pos, i), s |-> Idx(size, i), id |-> String(Idx(trace.ids, i + 1))]
    ELSE [p |-> Idx(pos, i), s |-> Idx(size, i)]

\* the body of the for loop: record i (counted from 1)
cdRecord(trace, pos, size, i) ==
    IF Truthy(trace.ids)
    THEN [p |-> Idx(pos, i), s |-> Idx(size, i), id |-> String(Idx(trace.ids, i))]
    ELSE [p |-> Idx(pos, i), s |-> Idx(size, i)]

\* calc(gd, trace): the returned cd, the locals and the collaborator calls
calc(gd, trace) ==
    LET xa == getFromId(gd, Or(trace.xaxis, CStr(X)))
        ya == getFromId(gd, Or(trace.yaxis, CStr(Y)))
        msUTC == msUTCOf(trace)
        h == isHorizontal(trace)
        size == IF h THEN makeCalcdata(xa.ax, trace, "x", msUTC)
                     ELSE makeCalcdata(ya.ax, trace, "y", msUTC)
        pos == IF h THEN makeCalcdata(ya.ax, trace, "y", msUTC)
                    ELSE makeCalcdata(xa.ax, trace, "x", msUTC)
        coerce == IF h THEN << makeCalcdataCall(xa.name, "x", msUTC),
                               makeCalcdataCall(ya.name, "y", msUTC) >>
                       ELSE << makeCalcdataCall(ya.name, "y", msUTC),
                               makeCalcdataCall(xa.name, "x", msUTC) >>
        serieslen == serieslenOf(pos, size)
        cd == [i \in 1..serieslen |-> cdRecord(trace, pos, size, i)]
        scale1 == IF hasColorscale(trace, "marker")
                  THEN << colorscaleCalc(trace.marker.color, "marker", "c") >>
                  ELSE << >>
        scale2 == IF hasColorscale(trace, "marker.line")
                  THEN << colorscaleCalc(trace.marker.line.color, "marker.line", "c") >>
                  ELSE << >>
        enrich == << [fn |-> "arraysToCalcdata", cd |-> cd],
                     [fn |-> "calcSelection", cd |-> cd] >>
    IN  IF ~xa.ok \/ ~ya.ok
        THEN [threw |-> TRUE, error |-> "UnknownAxisError", calls |-> << >>]
        ELSE [threw |-> FALSE, cd |-> cd, pos |-> pos, size |-> size,
              msUTC |-> msUTC, calls |-> coerce \o scale1 \o scale2 \o enrich]

(***************************************************************************)
(* test/jasmine/assets/domain_ref/components.js                            *)
(***************************************************************************)
\* n pixels, in 1/900 pixel
Px(n) == n * 900

\* Math.log10 of a leading digit 1..9, in thousandths
Log10Digit(d) ==
    CASE d = 1 -> 0
      [] d = 2 -> 301
      [] d = 3 -> 477
      [] d = 4 -> 602
      [] d = 5 -> 699
      [] d = 6 -> 778
      [] d = 7 -> 845
      [] d = 8 -> 903
      [] d = 9 -> 954

\* Math.log10 of a positive value in thousandths, in thousandths: exact to
\* the thousandth on values of one significant digit, as the tests use
RECURSIVE Log10(_)
Log10(v) ==
    IF v >= 10000 THEN 1000 + Log10(v \div 10)
    ELSE IF v < 1000 THEN Log10(v * 10) - 1000
    ELSE Log10Digit(v \div 1000)

\* Axes.getRefType
getRefType(ar) ==
    IF ar = PAPER THEN "paper"
    ELSE IF ar = PIXEL THEN "pixel"
    ELSE IF EndsWith(ar, DOMAIN_SUFFIX) THEN "domain"
    ELSE "range"

\* the pixels of the paper fractions 0 and 1 along a letter: x runs left to
\* right, y from the bottom of the canvas up, pixels being counted from the top
PaperLo(letter) ==
    IF letter = "x" THEN Px(PlotOrigin(letter))
    ELSE Px(PlotOrigin(letter) + PlotSize(letter))
PaperHi(letter) ==
    IF letter = "x" THEN Px(PlotOrigin(letter) + PlotSize(letter))
    ELSE Px(PlotOrigin(letter))

\* pixelCalc.mapPaperToPixel: a fraction of the whole canvas
mapPaperToPixel(lay, letter, d) ==
    PaperLo(letter) + (d * (PaperHi(letter) - PaperLo(letter))) \div 1000

\* the pixel span of an axis: its domain, a fraction of the canvas
AxisLo(lay, axis) == mapPaperToPixel(lay, Head(axis), lay[axis].domain[1])
AxisHi(lay, axis) == mapPaperToPixel(lay, Head(axis), lay[axis].domain[2])

\* pixelCalc.mapDomainToPixel: a fraction of the axis's pixel span
mapDomainToPixel(lay, axis, d) ==
    AxisLo(lay, axis) + (d * (AxisHi(lay, axis) - AxisLo(lay, axis))) \div 1000

\* pixelCalc.mapRangeToPixel: the axis range onto its pixel span, the log
\* taken first on a log axis unless nolog
mapRangeToPixel(lay, axis, r, nolog) ==
    LET ax == lay[axis]
        v == IF ~nolog /\ ax.type = "log" THEN Log10(r) ELSE r
    IN  AxisLo(lay, axis) +
        ((v - ax.range[1]) * (AxisHi(lay, axis) - AxisLo(lay, axis)))
            \div (ax.range[2] - ax.range[1])

\* a slip: the domain reference without its suffix
makeAxRef_noSuffix(axid, ref) ==
    CASE ref = "range" -> axid
      [] ref = "domain" -> axid
      [] ref = "paper" -> PAPER

\* makeAxRef(axid, ref)
makeAxRef(axid, ref) ==
    CASE ref = "range" -> axid
      [] ref = "domain" -> axid \o DOMAIN_SUFFIX
      [] ref = "paper" -> PAPER

\* the first letter of 'xref' or 'yref'
axletterOf(axref) == IF axref = "xref" THEN "x" ELSE "y"

\* offset = (offset === undefined) ? 0 : offset
offsetOf(offset) == IF offset = Undefined THEN 0 ELSE offset.v

\* a slip: a domain fraction taken as a fraction of the whole canvas
mapAROCoordToPixel_domainAsPaper(lay, axref, aro, c, offset, nolog) ==
    LET reftype == getRefType(aro[axref])
        val == aro[c] + offsetOf(offset)
    IN  CASE reftype = "range" ->
               Num(mapRangeToPixel(lay, id2name(aro[axref]), val, nolog))
          [] reftype = "domain" ->
               Num(mapPaperToPixel(lay, axletterOf(axref), val))
          [] reftype = "paper" ->
               Num(mapPaperToPixel(lay, axletterOf(axref), val))
          [] OTHER -> Undefined

\* mapAROCoordToPixel(layout, axref, aro, c, offset, nolog)
mapAROCoordToPixel(lay, axref, aro, c, offset, nolog) ==
    LET reftype == getRefType(aro[axref])
        val == aro[c] + offsetOf(offset)
    IN  CASE reftype = "range" ->
               Num(mapRangeToPixel(lay, id2name(aro[axref]), val, nolog))
          [] reftype = "domain" ->
               Num(mapDomainToPixel(lay, id2name(aro[axref]), val))
          [] reftype = "paper" ->
               Num(mapPaperToPixel(lay, axletterOf(axref), val))
          [] OTHER -> Undefined

\* a - b on Javascript values
Sub(a, b) == IF a.t = "number" /\ b.t = "number" THEN Num(a.v - b.v) ELSE NaN

\* a slip: y0 and y1 not swapped
shapeToBBox_noSwap(lay, aro) ==
    LET x == mapAROCoordToPixel(lay, "xref", aro, "x0", Undefined, FALSE)
        x1 == mapAROCoordToPixel(lay, "xref", aro, "x1", Undefined, FALSE)
        y == mapAROCoordToPixel(lay, "yref", aro, "y0", Undefined, FALSE)
        y1 == mapAROCoordToPixel(lay, "yref", aro, "y1", Undefined, FALSE)
    IN  [x |-> x, y |-> y, width |-> Sub(x1, x), height |-> Sub(y1, y)]

\* shapeToBBox(layout, aro)
shapeToBBox(lay, aro) ==
    LET x == mapAROCoordToPixel(lay, "xref", aro, "x0", Undefined, FALSE)
        x1 == mapAROCoordToPixel(lay, "xref", aro, "x1", Undefined, FALSE)
        y == mapAROCoordToPixel(lay, "yref", aro, "y1", Undefined, FALSE)
        y1 == mapAROCoordToPixel(lay, "yref", aro, "y0", Undefined, FALSE)
    IN  [x |-> x, y |-> y, width |-> Sub(x1, x), height |-> Sub(y1, y)]

\* a slip: the centred image spans a whole size to either side
imageXExtent_centerFull(lay, img) ==
    CASE img.xanchor = "left" ->
           << mapAROCoordToPixel(lay, "xref", img, "x", Undefined, TRUE),
              mapAROCoordToPixel(lay, "xref", img, "x", Num(img.sizex), TRUE) >>
      [] img.xanchor = "right" ->
           << mapAROCoordToPixel(lay, "xref", img, "x", Num(-img.sizex), TRUE),
              mapAROCoordToPixel(lay, "xref", img, "x", Undefined, TRUE) >>
      [] img.xanchor = "center" ->
           << mapAROCoordToPixel(lay, "xref", img, "x", Num(-img.sizex), TRUE),
              mapAROCoordToPixel(lay, "xref", img, "x", Num(img.sizex), TRUE) >>
      [] OTHER -> << >>

\* imageToBBox, switch (img.xanchor): << x0, x1 >>, or << >> for the throw
imageXExtent(lay, img) ==
    CASE img.xanchor = "left" ->
           << mapAROCoordToPixel(lay, "xref", img, "x", Undefined, TRUE),
              mapAROCoordToPixel(lay, "xref", img, "x", Num(img.sizex), TRUE) >>
      [] img.xanchor = "right" ->
           << mapAROCoordToPixel(lay, "xref", img, "x", Num(-img.sizex), TRUE),
              mapAROCoordToPixel(lay, "xref", img, "x", Undefined, TRUE) >>
      [] img.xanchor = "center" ->
           << mapAROCoordToPixel(lay, "xref", img, "x", Num((-img.sizex) \div 2), TRUE),
              mapAROCoordToPixel(lay, "xref", img, "x", Num(img.sizex \div 2), TRUE) >>
      [] OTHER -> << >>

\* a slip: the cases of top and bottom exchanged
imageYExtent_topAsBottom(lay, img) ==
    CASE img.yanchor = "top" ->
           << mapAROCoordToPixel(lay, "yref", img, "y", Undefined, TRUE),
              mapAROCoordToPixel(lay, "yref", img, "y", Num(img.sizey), TRUE) >>
      [] img.yanchor = "bottom" ->
           << mapAROCoordToPixel(lay, "yref", img, "y", Num(-img.sizey), TRUE),
              mapAROCoordToPixel(lay, "yref", img, "y", Undefined, TRUE) >>
      [] img.yanchor = "middle" ->
           << mapAROCoordToPixel(lay, "yref", img, "y", Num((-img.sizey) \div 2), TRUE),
              mapAROCoordToPixel(lay, "yref", img, "y", Num(img.sizey \div 2), TRUE) >>
      [] OTHER -> << >>

\* imageToBBox, switch (img.yanchor): << y0, y1 >>, or << >> for the throw
imageYExtent(lay, img) ==
    CASE img.yanchor = "bottom" ->
           << mapAROCoordToPixel(lay, "yref", img, "y", Undefined, TRUE),
              mapAROCoordToPixel(lay, "yref", img, "y", Num(img.sizey), TRUE) >>
      [] img.yanchor = "top" ->
           << mapAROCoordToPixel(lay, "yref", img, "y", Num(-img.sizey), TRUE),
              mapAROCoordToPixel(lay, "yref", img, "y", Undefined, TRUE) >>
      [] img.yanchor = "middle" ->
           << mapAROCoordToPixel(lay, "yref", img, "y", Num((-img.sizey) \div 2), TRUE),
              mapAROCoordToPixel(lay, "yref", img, "y", Num(img.sizey \div 2), TRUE) >>
      [] OTHER -> << >>

\* a slip: no default case, the box of an unknown anchor left undefined
imageToBBox_noDefault(lay, img) ==
    LET xs == imageXExtent(lay, img)
        ys == imageYExtent(lay, img)
    IN  IF xs = << >> \/ ys = << >>
        THEN [threw |-> FALSE,
              bbox |-> [x |-> Undefined, width |-> NaN, y |-> Undefined, height |-> NaN]]
        ELSE [threw |-> FALSE,
              bbox |-> [x |-> xs[1], width |-> Sub(xs[2], xs[1]),
                        y |-> ys[2], height |-> Sub(ys[1], ys[2])]]

\* imageToBBox(layout, img): the box, or the throw on an unknown anchor
imageToBBox(lay, img) ==
    LET xs == imageXExtent(lay, img)
        ys == imageYExtent(lay, img)
    IN  IF xs = << >> THEN [threw |-> TRUE, error |-> "Bad xanchor"]
        ELSE IF ys = << >> THEN [threw |-> TRUE, error |-> "Bad yanchor"]
        ELSE [threw |-> FALSE,
              bbox |-> [x |-> xs[1], width |-> Sub(xs[2], xs[1]),
                        y |-> ys[2], height |-> Sub(ys[1], ys[2])]]

\* a slip: the type switched, the range left in data units
logAxisIfAxType_typeOnly(layoutIn, layoutOut, axid, axtype) ==
    LET axname == id2name(axid)
        axis == [layoutIn[axname] EXCEPT !.type = "log"]
    IN  IF axtype = "log"
        THEN [n \in DOMAIN layoutOut \cup {axname} |->
                 IF n = axname THEN axis ELSE layoutOut[n]]
        ELSE layoutOut

\* logAxisIfAxType(layoutIn, layoutOut, axid, axtype): layoutOut afterwards
logAxisIfAxType(layoutIn, layoutOut, axid, axtype) ==
    LET axname == id2name(axid)
        axis == [layoutIn[axname] EXCEPT
                    !.type = "log",
                    !.range = << Log10(@[1]), Log10(@[2]) >>]
    IN  IF axtype = "log"
        THEN [n \in DOMAIN layoutOut \cup {axname} |->
                 IF n = axname THEN axis ELSE layoutOut[n]]
        ELSE layoutOut

\* Plotly.relayout(gd, update): the axis containers of gd.layout afterwards
relayout(gdlayout, update) ==
    [n \in DOMAIN gdlayout |-> IF n \in DOMAIN update THEN update[n] ELSE gdlayout[n]]

\* an update with no axis container: {}
NoAxes == [n \in {} |-> 0]

\* the layout after the two logAxisIfAxType calls of a test and its relayout
layoutForTest(gdlayout, xid, xaxistype, yid, yaxistype) ==
    relayout(gdlayout,
             logAxisIfAxType(gdlayout,
                             logAxisIfAxType(gdlayout, NoAxes, xid, xaxistype),
                             yid, yaxistype))

\* a slip: the log taken on a log axis whatever the reference
logIfRange_anyRef(reftype, axistype, v) ==
    IF axistype = "log" THEN Log10(v) ELSE v

\* x0 = xreftype === 'range' && xaxistype === 'log' ? Math.log10(x0) : x0
logIfRange(reftype, axistype, v) ==
    IF reftype = "range" /\ axistype = "log" THEN Log10(v) ELSE v

\* a slip: aypixels starts from axpixels instead of false
arrowModes_carried(xreftype, yreftype, axreftype, ayreftype) ==
    [axpixels |-> (axreftype = "pixel" \/ axreftype # xreftype),
     aypixels |-> \/ (axreftype = "pixel" \/ axreftype # xreftype)
                  \/ (ayreftype = "pixel" \/ ayreftype # yreftype)]

\* annotationTest: whether ax and ay are pixels relative to the anchor
\* (axreftype === 'pixel') || (axreftype != xreftype), and the same for y
arrowModes(xreftype, yreftype, axreftype, ayreftype) ==
    [axpixels |-> (axreftype = "pixel" \/ axreftype # xreftype),
     aypixels |-> (ayreftype = "pixel" \/ ayreftype # yreftype)]

\* annaxscale(ac, c0, K)
annaxscale(ac, c0, K) == c0 + 2 * (ac - c0)

\* aroFromParams('annotation', x0, y0, xref, yref, color, opts)
annotationFromParams(x0, y0, xref, yref, color, opts) ==
    [xref |-> xref, yref |-> yref, x |-> x0, y |-> y0, ax |-> opts.ax, ay |-> opts.ay,
     axref |-> opts.axref, ayref |-> opts.ayref, arrowcolor |-> color]

\* the expected arrow length along one axis: the given pixels, or the mapped
\* arrow coordinate less the mapped anchor
arrowPixels(lay, axref, anno0, c, pixels, abspixels) ==
    IF pixels THEN Num(anno0[c])
    ELSE Sub(mapAROCoordToPixel(lay, axref, anno0, c, Num(0), TRUE), abspixels)

\* annotationTest(gd, layout, x0, y0, ax, ay, xref, yref, axref, ayref,
\* xaxistype, yaxistype, xid, yid) on the layout after its relayout: what it
\* expects of the drawn annotations
annotationTest(lay, a) ==
    LET xreftype == getRefType(a.xref)
        yreftype == getRefType(a.yref)
        axreftype == getRefType(a.axref)
        ayreftype == getRefType(a.ayref)
        x0 == logIfRange(xreftype, a.xaxistype, a.x0)
        ax == logIfRange(axreftype, a.xaxistype, a.ax)
        y0 == logIfRange(yreftype, a.yaxistype, a.y0)
        ay == logIfRange(ayreftype, a.yaxistype, a.ay)
        modes == arrowModes(xreftype, yreftype, axreftype, ayreftype)
        axpixels == modes.axpixels
        aypixels == modes.aypixels
        opts0 == [ax |-> ax, ay |-> ay, axref |-> a.axref, ayref |-> a.ayref]
        opts1 == [ax |-> IF axpixels THEN 2 * ax ELSE annaxscale(ax, x0, 2),
                  ay |-> IF aypixels THEN 2 * ay ELSE annaxscale(ay, y0, 2),
                  axref |-> a.axref, ayref |-> a.ayref]
        anno0 == annotationFromParams(x0, y0, a.xref, a.yref, "rgb(10, 20, 30)", opts0)
        anno1 == annotationFromParams(x0, y0, a.xref, a.yref, "rgb(10, 20, 31)", opts1)
        xabspixels == mapAROCoordToPixel(lay, "xref", anno1, "x", Num(0), TRUE)
        yabspixels == mapAROCoordToPixel(lay, "yref", anno1, "y", Num(0), TRUE)
    IN  [xreftype |-> xreftype, yreftype |-> yreftype,
         axreftype |-> axreftype, ayreftype |-> ayreftype,
         axpixels |-> axpixels, aypixels |-> aypixels,
         anno0 |-> anno0, anno1 |-> anno1,
         xabspixels |-> xabspixels, yabspixels |-> yabspixels,
         xpixels |-> arrowPixels(lay, "xref", anno0, "ax", axpixels, xabspixels),
         ypixels |-> arrowPixels(lay, "yref", anno0, "ay", aypixels, yabspixels)]

(***************************************************************************)
(* The values the tests are run on                                         *)
(***************************************************************************)
\* aroPositionsX, aroPositionsY: values and sizes in thousandths, pixel in 1/900 pixel
aroPositionsX ==
    { [ref |-> "range", value |-> <<2000, 3000>>, size |-> 1500, pixel |-> Px(25)],
      [ref |-> "domain", value |-> <<200, 750>>, size |-> 300, pixel |-> Px(30)],
      [ref |-> "paper", value |-> <<250, 800>>, size |-> 350, pixel |-> Px(35)] }
aroPositionsY ==
    { [ref |-> "range", value |-> <<1000, 2000>>, size |-> 1200, pixel |-> Px(30)],
      [ref |-> "domain", value |-> <<250, 700>>, size |-> 200, pixel |-> Px(40)],
      [ref |-> "paper", value |-> <<200, 850>>, size |-> 300, pixel |-> Px(45)] }
axisTypes == {"linear", "log"}
axisPairs == { <<X, Y>>, <<X2, Y>>, <<X, Y2>>, <<X2, Y2>> }
arrowAxis == { <<"s", "s">>, <<"p", "s">>, <<"s", "p">>, <<"p", "p">> }
shapeType == {"line", "rect"}
xAnchors == {"left", "center", "right"}
yAnchors == {"top", "middle", "bottom"}
\* anchor tokens an image object can carry, the unrecognized ones included
xAnchorTokens == xAnchors \cup {"middle", "start"}
yAnchorTokens == yAnchors \cup {"center"}

\* testAnnotationCombo(combo): the arguments it gives annotationTest
testAnnotationCombo(combo) ==
    LET xid == combo.axispair[1]
        yid == combo.axispair[2]
        xref == makeAxRef(xid, combo.aroposx.ref)
        yref == makeAxRef(yid, combo.aroposy.ref)
        axref == IF combo.arrowaxispair[1] = "p" THEN PIXEL ELSE xref
        ayref == IF combo.arrowaxispair[2] = "p" THEN PIXEL ELSE yref
    IN  [x0 |-> combo.aroposx.value[1], y0 |-> combo.aroposy.value[1],
         ax |-> IF axref = PIXEL THEN combo.aroposx.pixel ELSE combo.aroposx.value[2],
         ay |-> IF ayref = PIXEL THEN combo.aroposy.pixel ELSE combo.aroposy.value[2],
         xref |-> xref, yref |-> yref, axref |-> axref, ayref |-> ayref,
         xaxistype |-> combo.axistypex, yaxistype |-> combo.axistypey,
         xid |-> xid, yid |-> yid]

\* testImageCombo(combo) and imageTest: the image it draws
testImageCombo(combo) ==
    LET xid == combo.axispair[1]
        yid == combo.axispair[2]
    IN  [x |-> combo.aroposx.value[1], y |-> combo.aroposy.value[1],
         sizex |-> combo.aroposx.size, sizey |-> combo.aroposy.size,
         xanchor |-> combo.xanchor, yanchor |-> combo.yanchor,
         xref |-> makeAxRef(xid, combo.aroposx.ref),
         yref |-> makeAxRef(yid, combo.aroposy.ref)]

\* aroFromAROPos(aro, axletter, axnum, aropos): the reference it sets
aroFromAROPos(axletter, axnum, aropos) ==
    CASE aropos.ref = "range" -> <<axletter>> \o axnum
      [] aropos.ref = "domain" -> <<axletter>> \o axnum \o DOMAIN_SUFFIX
      [] aropos.ref = "paper" -> PAPER

\* testDomRefAROCombo(combo): the shape it draws
testDomRefAROCombo(combo) ==
    [type |-> combo.aroType,
     x0 |-> combo.xaroPos.value[1], x1 |-> combo.xaroPos.value[2],
     xref |-> aroFromAROPos("x", combo.xAxNum, combo.xaroPos),
     y0 |-> combo.yaroPos.value[1], y1 |-> combo.yaroPos.value[2],
     yref |-> aroFromAROPos("y", combo.yAxNum, combo.yaroPos)]

axNum == { << >>, <<"2">> }

\* the data of a bar trace: n values along x, n along y, n ids
DataX(n) == Arr([i \in 1..n |-> Num(i)])
DataY(n) == Arr([i \in 1..n |-> IF i = 3 THEN Str("a") ELSE Num(10 * i)])
DataIds(n) == Arr([i \in 1..n |-> IF i = 2 THEN Str("b") ELSE Num(6 + i)])

Markers ==
    { [colorscale |-> m, color |-> DataX(1),
       line |-> [colorscale |-> l, color |-> DataY(1)]] :
          m \in {Undefined, Str("Viridis")}, l \in {Undefined, Str("Reds")} }

\* every shape of the data, on the default axes without base or color scale
DataTraces ==
    [ x : {DataX(n) : n \in 0..MaxLen},
      y : {DataY(n) : n \in 0..MaxLen},
      orientation : {Undefined, Str("v"), Str("h")},
      ids : {Undefined} \cup {DataIds(n) : n \in 0..MaxLen},
      base : {Undefined},
      marker : {m \in Markers : ~Truthy(m.colorscale) /\ ~Truthy(m.line.colorscale)},
      xaxis : {Undefined},
      yaxis : {Undefined} ]

\* bases a trace can carry: none, null, '', NaN, 0, and explicit ones
Bases == {Undefined, Null, Str(""), NaN, Num(0), Num(5), Num(-2), Str("2020-01-01")}

\* every base, color scale and axis, on data of unequal lengths
ConfigTraces ==
    [ x : {DataX(MaxLen)},
      y : {DataY(MaxLen - 1)},
      orientation : {Undefined, Str("v"), Str("h")},
      ids : {Undefined, DataIds(MaxLen)},
      base : Bases,
      marker : Markers,
      xaxis : {Undefined, CStr(X3)},
      yaxis : {Undefined, CStr(Y2), CStr(Y3)} ]

Traces == DataTraces \cup ConfigTraces

(***************************************************************************)
(* The state machine                                                       *)
(***************************************************************************)
Init ==
    /\ layout = testMock
    /\ fn = "newPlot"
    /\ args = << >>
    /\ res = << >>
    /\ calls = << >>
    /\ pc = "idle"
    /\ queue = << >>
    /\ local = [task |-> [kind |-> "none"], update |-> << >>, seen |-> << >>]

\* Plotly.newPlot(gd, testMock): every test starts from a fresh plot
NewPlot ==
    /\ UNCHANGED <<pc, queue, local>>
    /\ fn # "newPlot"
    /\ layout' = testMock
    /\ fn' = "newPlot"
    /\ args' = << >>
    /\ res' = << >>
    /\ calls' = << >>

\* logAxisIfAxType on an x and a y axis of the fresh plot and Plotly.relayout
Relayout ==
    /\ UNCHANGED <<pc, queue, local>>
    /\ fn = "newPlot"
    /\ \E axistypex \in axisTypes, axistypey \in axisTypes, axispair \in axisPairs :
        /\ layout' = layoutForTest(layout, axispair[1], axistypex, axispair[2], axistypey)
        /\ fn' = "relayout"
        /\ args' = [axistypex |-> axistypex, axistypey |-> axistypey, axispair |-> axispair]
        /\ res' = << >>
        /\ calls' = << >>

\* the recalculation of a bar trace that a new plot or a relayout triggers
Calc ==
    /\ UNCHANGED <<pc, queue, local>>
    /\ fn \in {"newPlot", "relayout"}
    /\ \E trace \in Traces :
        LET r == calc(layout, trace)
        IN  /\ fn' = "calc"
            /\ args' = trace
            /\ res' = [f \in DOMAIN r \ {"calls"} |-> r[f]]
            /\ calls' = r.calls
            /\ UNCHANGED layout

\* one coordinate of a shape mapped on the layout of the plot
MapCoord ==
    /\ UNCHANGED <<pc, queue, local>>
    /\ fn \in {"newPlot", "relayout"}
    /\ \E xAxNum \in axNum, yAxNum \in axNum,
       xaroPos \in aroPositionsX, yaroPos \in aroPositionsY,
       axref \in {"xref", "yref"}, k \in {"0", "1"},
       offset \in {Undefined, Num(0), Num(1000)}, nolog \in BOOLEAN :
        LET aro == testDomRefAROCombo([aroType |-> "line", xAxNum |-> xAxNum,
                       yAxNum |-> yAxNum, xaroPos |-> xaroPos, yaroPos |-> yaroPos])
            c == IF axref = "xref" THEN (IF k = "0" THEN "x0" ELSE "x1")
                                   ELSE (IF k = "0" THEN "y0" ELSE "y1")
        IN  /\ fn' = "mapAROCoordToPixel"
            /\ args' = [axref |-> axref, aro |-> aro, c |-> c,
                         offset |-> offset, nolog |-> nolog]
            /\ res' = mapAROCoordToPixel(layout, axref, aro, c, offset, nolog)
            /\ calls' = << >>
            /\ UNCHANGED layout

\* testDomRefAROCombo: new plot, relayout with the shape, its expected box
ShapeTest ==
    /\ UNCHANGED <<pc, queue, local>>
    /\ fn = "newPlot"
    /\ \E xAxNum \in axNum, xaxisType \in axisTypes, xaroPos \in aroPositionsX,
       yAxNum \in axNum, yaxisType \in axisTypes, yaroPos \in aroPositionsY,
       aroType \in shapeType :
        LET combo == [xAxNum |-> xAxNum, xaxisType |-> xaxisType, xaroPos |-> xaroPos,
                      yAxNum |-> yAxNum, yaxisType |-> yaxisType, yaroPos |-> yaroPos,
                      aroType |-> aroType]
            aro == testDomRefAROCombo(combo)
            lay == layoutForTest(testMock, X \o xAxNum, xaxisType, Y \o yAxNum, yaxisType)
        IN  /\ layout' = lay
            /\ fn' = "shapeToBBox"
            /\ args' = combo
            /\ res' = [aro |-> aro, bbox |-> shapeToBBox(lay, aro)]
            /\ calls' = << >>

\* testImageCombo: new plot, relayout with the image, its expected box
ImageTest ==
    /\ UNCHANGED <<pc, queue, local>>
    /\ fn = "newPlot"
    /\ \E axistypex \in axisTypes, axistypey \in axisTypes, axispair \in axisPairs,
       aroposx \in aroPositionsX, aroposy \in aroPositionsY,
       xanchor \in xAnchors, yanchor \in yAnchors :
        LET combo == [axistypex |-> axistypex, axistypey |-> axistypey,
                      axispair |-> axispair, aroposx |-> aroposx, aroposy |-> aroposy,
                      xanchor |-> xanchor, yanchor |-> yanchor]
            image == testImageCombo(combo)
            lay == layoutForTest(testMock, axispair[1], axistypex, axispair[2], axistypey)
            r == imageToBBox(lay, image)
        IN  /\ layout' = lay
            /\ fn' = "imageToBBox"
            /\ args' = combo
            /\ res' = [f \in DOMAIN r \cup {"image"} |->
                           IF f = "image" THEN image ELSE r[f]]
            /\ calls' = << >>

\* imageToBBox(gd.layout, image) for an image at the place of a shape whose
\* box was computed on the same plot; the image carries any anchor tokens
ImageOnPlot ==
    /\ UNCHANGED <<pc, queue, local>>
    /\ fn = "shapeToBBox"
    /\ \E xanchor \in xAnchorTokens, yanchor \in yAnchorTokens :
        LET image == [x |-> res.aro.x0, y |-> res.aro.y0,
                      sizex |-> args.xaroPos.size, sizey |-> args.yaroPos.size,
                      xanchor |-> xanchor, yanchor |-> yanchor,
                      xref |-> res.aro.xref, yref |-> res.aro.yref]
            r == imageToBBox(layout, image)
        IN  /\ fn' = "imageOnPlot"
            /\ args' = [xanchor |-> xanchor, yanchor |-> yanchor]
            /\ res' = [f \in DOMAIN r \cup {"image", "shape", "shapebbox"} |->
                           CASE f = "image" -> image
                             [] f = "shape" -> res.aro
                             [] f = "shapebbox" -> res.bbox
                             [] OTHER -> r[f]]
            /\ calls' = << >>
            /\ UNCHANGED layout

\* testAnnotationCombo: new plot, relayout with the two annotations, the
\* positions and arrow lengths annotationTest expects
AnnotationTest ==
    /\ UNCHANGED <<pc, queue, local>>
    /\ fn = "newPlot"
    /\ \E axistypex \in axisTypes, axistypey \in axisTypes, axispair \in axisPairs,
       aroposx \in aroPositionsX, aroposy \in aroPositionsY,
       arrowaxispair \in arrowAxis :
        LET combo == [axistypex |-> axistypex, axistypey |-> axistypey,
                      axispair |-> axispair, aroposx |-> aroposx, aroposy |-> aroposy,
                      arrowaxispair |-> arrowaxispair]
            a == testAnnotationCombo(combo)
            lay == layoutForTest(testMock, a.xid, a.xaxistype, a.yid, a.yaxistype)
            r == annotationTest(lay, a)
        IN  /\ layout' = lay
            /\ fn' = "annotationTest"
            /\ args' = combo
            /\ res' = [f \in DOMAIN r \cup {"call"} |->
                           IF f = "call" THEN a ELSE r[f]]
            /\ calls' = << >>

Next ==
    \/ NewPlot \/ Relayout \/ Calc \/ MapCoord
    \/ ShapeTest \/ ImageTest \/ ImageOnPlot \/ AnnotationTest

Spec == Init /\ [][Next]_vars

(***************************************************************************)
(* The event loop: externally triggered tasks, run one at a time, each     *)
(* task a sequence of steps on the shared layout                           *)
(***************************************************************************)
\* the trace of the plot, and traces on other axes
PlotTrace ==
    [x |-> DataX(1), y |-> DataY(1), orientation |-> Undefined, ids |-> Undefined,
     base |-> Undefined,
     marker |-> [colorscale |-> Undefined, color |-> DataX(1),
                 line |-> [colorscale |-> Undefined, color |-> DataY(1)]],
     xaxis |-> Undefined, yaxis |-> Undefined]
LoopTraces ==
    {PlotTrace, [PlotTrace EXCEPT !.yaxis = CStr(Y2)], [PlotTrace EXCEPT !.xaxis = CStr(X3)]}

\* what the host can be asked for: a recalculation of a trace, a fresh plot,
\* or the relayout of a test that switches axes of a pair to log
Triggers ==
    [kind : {"calc"}, trace : LoopTraces,
     axispair : {<<X, Y>>}, axistypex : {"linear"}, axistypey : {"linear"}]
    \cup
    [kind : {"newPlot"}, trace : {PlotTrace},
     axispair : {<<X, Y>>}, axistypex : {"linear"}, axistypey : {"linear"}]
    \cup
    [kind : {"relayout"}, trace : {PlotTrace},
     axispair : axisPairs, axistypex : axisTypes, axistypey : axisTypes]

Idle == [task |-> [kind |-> "none"], update |-> << >>, seen |-> << >>]

PassLabels == {"calc_xa", "calc_ya", "calc_makeCalcdata", "calc_cd"}

\* the axis as a step of the pass finds it in gd
Observed(gd, axname) == [ax |-> axname, as |-> gd[axname]]

\* a trigger arrives at any moment, a task running or not, and waits its
\* turn; the tests relayout a fresh plot, once
Trigger ==
    /\ Len(queue) < MaxQueue
    /\ \E t \in Triggers :
        /\ t.kind = "relayout" =>
              /\ layout = testMock
              /\ local.task.kind # "relayout"
              /\ \A i \in 1..Len(queue) : queue[i].kind # "relayout"
        /\ queue' = Append(queue, t)
    /\ UNCHANGED <<layout, fn, args, res, calls, pc, local>>

\* the host starts the next task only when none is running
Dispatch ==
    /\ pc = "idle"
    /\ queue # << >>
    /\ local' = [task |-> Head(queue), update |-> NoAxes, seen |-> << >>]
    /\ queue' = Tail(queue)
    /\ pc' = CASE Head(queue).kind = "calc" -> "calc_xa"
               [] Head(queue).kind = "newPlot" -> "newPlot"
               [] Head(queue).kind = "relayout" -> "logAxisX"
    /\ UNCHANGED <<layout, fn, args, res, calls>>

\* Plotly.newPlot(gd, testMock), then the recalculation of the plot's trace
LoopNewPlot ==
    /\ pc = "newPlot"
    /\ layout' = testMock
    /\ pc' = "calc_xa"
    /\ UNCHANGED <<fn, args, res, calls, queue, local>>

\* logAxisIfAxType(gd.layout, layout, xid, xaxistype): writes the update only
LoopLogAxisX ==
    /\ pc = "logAxisX"
    /\ local' = [local EXCEPT !.update =
                    logAxisIfAxType(layout, @, local.task.axispair[1], local.task.axistypex)]
    /\ pc' = "logAxisY"
    /\ UNCHANGED <<layout, fn, args, res, calls, queue>>

\* logAxisIfAxType(gd.layout, layout, yid, yaxistype)
LoopLogAxisY ==
    /\ pc = "logAxisY"
    /\ local' = [local EXCEPT !.update =
                    logAxisIfAxType(layout, @, local.task.axispair[2], local.task.axistypey)]
    /\ pc' = "relayout"
    /\ UNCHANGED <<layout, fn, args, res, calls, queue>>

\* Plotly.relayout(gd, layout): the whole update applied, then the
\* recalculation of the plot's trace
LoopRelayout ==
    /\ pc = "relayout"
    /\ layout' = relayout(layout, local.update)
    /\ pc' = "calc_xa"
    /\ UNCHANGED <<fn, args, res, calls, queue, local>>

\* calc line 18: xa resolved, or the throw that ends the pass
CalcResolveX ==
    /\ pc = "calc_xa"
    /\ LET xa == getFromId(layout, Or(local.task.trace.xaxis, CStr(X)))
       IN  IF xa.ok
           THEN /\ local' = [local EXCEPT !.seen = Append(@, Observed(layout, xa.name))]
                /\ pc' = "calc_ya"
           ELSE /\ local' = Idle
                /\ pc' = "idle"
    /\ UNCHANGED <<layout, fn, args, res, calls, queue>>

\* calc line 19: ya resolved, or the throw that ends the pass
CalcResolveY ==
    /\ pc = "calc_ya"
    /\ LET ya == getFromId(layout, Or(local.task.trace.yaxis, CStr(Y)))
       IN  IF ya.ok
           THEN /\ local' = [local EXCEPT !.seen = Append(@, Observed(layout, ya.name))]
                /\ pc' = "calc_makeCalcdata"
           ELSE /\ local' = Idle
                /\ pc' = "idle"
    /\ UNCHANGED <<layout, fn, args, res, calls, queue>>

\* calc lines 24-30: both axes coerce their data, each as it is now
CalcCoerce ==
    /\ pc = "calc_makeCalcdata"
    /\ local' = [local EXCEPT !.seen =
                    @ \o << Observed(layout, local.seen[1].ax),
                            Observed(layout, local.seen[2].ax) >>]
    /\ pc' = "calc_cd"
    /\ UNCHANGED <<layout, fn, args, res, calls, queue>>

\* calc lines 33-64: the records, the collaborators, the return
CalcFinish ==
    /\ pc = "calc_cd"
    /\ local' = Idle
    /\ pc' = "idle"
    /\ UNCHANGED <<layout, fn, args, res, calls, queue>>

LoopNext ==
    \/ Trigger \/ Dispatch
    \/ LoopNewPlot \/ LoopLogAxisX \/ LoopLogAxisY \/ LoopRelayout
    \/ CalcResolveX \/ CalcResolveY \/ CalcCoerce \/ CalcFinish

LoopSpec == Init /\ [][LoopNext]_vars

(***************************************************************************)
(* Properties of calc                                                      *)
(***************************************************************************)
CalcDone == fn = "calc" /\ ~res.threw

\* what the axis coercion makes of the i-th x and y of the test data
CoercedX(trace, i) == IF i \in 1..Len(trace.x.v) THEN Num(i) ELSE Undefined
CoercedY(trace, i) ==
    IF i \in 1..Len(trace.y.v) /\ i # 3 THEN Num(10 * i) ELSE Undefined

\* C1: the calculated data is the pairwise zip of the position array and the
\* size array cut to the shorter one: as long as the shorter, record i made of
\* position i and size i, nothing padded; {x:[1,2,3], y:[10,20]} vertical
\* gives [{p:1,s:10},{p:2,s:20}].
C1_ZipToShorter ==
    CalcDone =>
        /\ Len(res.cd) = Min(Len(res.pos.v), Len(res.size.v))
        /\ \A i \in 1..Len(res.cd) :
               /\ res.cd[i].p = res.pos.v[i]
               /\ res.cd[i].s = res.size.v[i]
        /\ {Len(res.pos.v), Len(res.size.v)} = {Len(args.x.v), Len(args.y.v)}
        /\ (/\ args.x = DataX(3) /\ args.y = DataY(2)
            /\ args.orientation = Str("v") /\ args.ids = Undefined)
              => res.cd = << [p |-> Num(1), s |-> Num(10)], [p |-> Num(2), s |-> Num(20)] >>

\* C1 witness: three positions, two sizes, two records
C1_Witness ==
    /\ CalcDone
    /\ Len(res.pos.v) = 3 /\ Len(res.size.v) = 2 /\ Len(res.cd) = 2
    /\ res.cd[2] = [p |-> Num(2), s |-> Num(20)]

\* the string of the i-th test id: 7, 'b', 9, ... and undefined past the end
IdString(ids, i) ==
    IF i > Len(ids.v) THEN "undefined"
    ELSE IF i = 2 THEN "b" ELSE ToString(6 + i)

\* C2: with an ids array record i carries id = String(ids[i]), aligned by
\* index whatever the length of ids; without one no record has an id.
C2_IdsAligned ==
    CalcDone =>
        \A i \in 1..Len(res.cd) :
            IF args.ids = Undefined
            THEN "id" \notin DOMAIN res.cd[i]
            ELSE /\ "id" \in DOMAIN res.cd[i]
                 /\ res.cd[i].id = IdString(args.ids, i)

\* C2 witness: ids shorter than the data: a number, a string, and none
C2_Witness ==
    /\ CalcDone
    /\ args.ids = DataIds(2)
    /\ Len(res.cd) = 3
    /\ res.cd[1].id = "7" /\ res.cd[2].id = "b" /\ res.cd[3].id = "undefined"

\* C3: orientation 'h' takes every size from x and every position from y;
\* any other orientation, absent included, sizes from y and positions from
\* x; the same for every record of the trace.
C3_OrientationPerTrace ==
    CalcDone =>
        \A i \in 1..Len(res.cd) :
            IF args.orientation = Str("h")
            THEN res.cd[i].s = CoercedX(args, i) /\ res.cd[i].p = CoercedY(args, i)
            ELSE res.cd[i].s = CoercedY(args, i) /\ res.cd[i].p = CoercedX(args, i)

\* C3 witness: a horizontal trace of two records
C3_Witness ==
    /\ CalcDone
    /\ args.orientation = Str("h")
    /\ Len(res.cd) = 2
    /\ res.cd[2] = [p |-> Num(20), s |-> Num(2)]

\* a base that is there: any number (0 too, NaN not), any string but ''
ExplicitBase(base) ==
    \/ base.t = "number"
    \/ base.t = "string" /\ base.v # ""

\* C14: calc hands the absolute-millisecond flag to the coercion of the
\* position array and of the size array alike; the flag is true exactly for
\* an explicit base: truthy or exactly 0, and false for a base that is
\* absent, null, '' or NaN.
C14_MsUTCIsExplicitBase ==
    CalcDone =>
        /\ res.msUTC = ExplicitBase(args.base)
        /\ args.base \in {Undefined, Null, Str(""), NaN} => ~res.msUTC
        /\ calls[1].fn = "makeCalcdata" /\ calls[1].msUTC = res.msUTC
        /\ calls[2].fn = "makeCalcdata" /\ calls[2].msUTC = res.msUTC
        /\ {calls[1].letter, calls[2].letter} = {"x", "y"}

\* C14 witness: a horizontal trace with base 0, both coercions told so
C14_Witness ==
    /\ CalcDone
    /\ args.base = Num(0) /\ args.orientation = Str("h")
    /\ res.msUTC
    /\ calls[1].msUTC /\ calls[1].letter = "x"
    /\ calls[2].msUTC /\ calls[2].letter = "y"

\* a container that declares a color scale
HasScale(container) == container.colorscale # Undefined

\* the places of the color-scale calls for a container among the calls
ScaleCalls(containerStr) ==
    {i \in 1..Len(calls) :
        calls[i].fn = "colorscaleCalc" /\ calls[i].containerStr = containerStr}

\* the same trace declaring no color scale
NoScale(trace) ==
    [trace EXCEPT !.marker.colorscale = Undefined, !.marker.line.colorscale = Undefined]

\* C15: the color-scale collaborator is called for 'marker' exactly when the
\* marker has a color scale and for 'marker.line' exactly when the marker
\* line has one, with that container's raw colors, its path tag and the
\* letter 'c', after the coercions that feed the records and before the two
\* enrichment collaborators; the calculated data is what it is without any
\* color scale.
C15_ColorscalePerContainer ==
    CalcDone =>
        LET n == Len(calls)
        IN  /\ Cardinality(ScaleCalls("marker")) = IF HasScale(args.marker) THEN 1 ELSE 0
            /\ Cardinality(ScaleCalls("marker.line")) =
                   IF HasScale(args.marker.line) THEN 1 ELSE 0
            /\ \A i \in 1..n : calls[i].fn = "colorscaleCalc" =>
                   /\ calls[i].cLetter = "c"
                   /\ calls[i].containerStr \in {"marker", "marker.line"}
                   /\ calls[i].vals = IF calls[i].containerStr = "marker"
                                      THEN args.marker.color
                                      ELSE args.marker.line.color
                   /\ 2 < i /\ i < n - 1
            /\ calls[1].fn = "makeCalcdata" /\ calls[2].fn = "makeCalcdata"
            /\ calls[n - 1].fn = "arraysToCalcdata" /\ calls[n - 1].cd = res.cd
            /\ calls[n].fn = "calcSelection" /\ calls[n].cd = res.cd
            /\ res.cd = calc(layout, NoScale(args)).cd

\* C15 witness: color scales on both containers of a trace with ids, marker first
C15_Witness ==
    /\ CalcDone
    /\ HasScale(args.marker) /\ HasScale(args.marker.line)
    /\ args.ids # Undefined /\ Len(res.cd) = 2
    /\ Len(calls) = 6
    /\ calls[3].containerStr = "marker" /\ calls[3].vals = args.marker.color
    /\ calls[4].containerStr = "marker.line" /\ calls[4].vals = args.marker.line.color

\* the axis ids calc resolves for a trace
XAxisId(trace) == IF trace.xaxis = Undefined THEN X ELSE trace.xaxis.v
YAxisId(trace) == IF trace.yaxis = Undefined THEN Y ELSE trace.yaxis.v
UnknownAxis(gd, trace) ==
    \/ id2name(XAxisId(trace)) \notin DOMAIN gd
    \/ id2name(YAxisId(trace)) \notin DOMAIN gd

\* the collaborators that run after the records are built
AfterRecords == {"colorscaleCalc", "arraysToCalcdata", "calcSelection"}

\* C11: when the x or the y axis id of the trace ('x', 'y' by default) is
\* not in the layout, calc aborts with the error: no calculated data is
\* returned, empty or partial, and neither the color-scale nor the
\* enrichment collaborators are invoked.
C11_UnknownAxisAborts ==
    (fn = "calc" /\ UnknownAxis(layout, args)) =>
        /\ res.threw
        /\ res.error = "UnknownAxisError"
        /\ "cd" \notin DOMAIN res
        /\ \A i \in 1..Len(calls) : calls[i].fn \notin AfterRecords

\* C11 witness: a trace on x3 with a color scale on its marker and a named,
\* existing y axis, aborted
C11_Witness ==
    /\ fn = "calc"
    /\ args.xaxis = CStr(X3) /\ args.yaxis = CStr(Y2)
    /\ Truthy(args.marker.colorscale)
    /\ res.threw /\ calls = << >>

(***************************************************************************)
(* Properties of the pixel geometry                                        *)
(***************************************************************************)
XAXIS == <<"x", "a", "x", "i", "s">>
YAXIS == <<"y", "a", "x", "i", "s">>
XAXIS2 == <<"x", "a", "x", "i", "s", "2">>
YAXIS2 == <<"y", "a", "x", "i", "s", "2">>

IsDomainRef(ref) == EndsWith(ref, DOMAIN_SUFFIX)
IsRangeRef(ref) == ref # PAPER /\ ref # PIXEL /\ ~IsDomainRef(ref)

\* the axis container a range or domain reference names
NamedAxis(ref) ==
    LET id == IF IsDomainRef(ref) THEN SubSeq(ref, 1, Len(ref) - Len(DOMAIN_SUFFIX)) ELSE ref
    IN  CASE id = X -> XAXIS
          [] id = X2 -> XAXIS2
          [] id = Y -> YAXIS
          [] id = Y2 -> YAXIS2

\* the pixel of a value under a reference, by the kind of the reference
ExpectedPixel(lay, letter, ref, val, nolog) ==
    IF ref = PAPER THEN mapPaperToPixel(lay, letter, val)
    ELSE IF IsDomainRef(ref) THEN mapDomainToPixel(lay, NamedAxis(ref), val)
    ELSE mapRangeToPixel(lay, NamedAxis(ref), val, nolog)

\* C4: one coordinate is mapped by the kind of its own reference, applied to
\* raw value plus offset (offset 0 when not given): range by the range
\* transform of the named axis, domain by start + fraction * (end - start) of
\* the named axis's pixel span (0.2 and 0.75 of [100,400] give 160 and 325),
\* paper by the whole canvas of the axis letter, whatever the axes are.
C4_MapByOwnReference ==
    fn = "mapAROCoordToPixel" =>
        LET ref == args.aro[args.axref]
            letter == IF args.axref = "xref" THEN "x" ELSE "y"
            val == args.aro[args.c] + (IF args.offset = Undefined THEN 0 ELSE args.offset.v)
        IN  /\ res = Num(ExpectedPixel(layout, letter, ref, val, args.nolog))
            /\ ref = PAPER =>
                  res = Num(IF letter = "x"
                            THEN Px(PlotOrigin("x")) + (val * Px(PlotSize("x"))) \div 1000
                            ELSE Px(PlotOrigin("y") + PlotSize("y")) - (val * Px(PlotSize("y"))) \div 1000)
            /\ IsDomainRef(ref) =>
                  res = Num(AxisLo(layout, NamedAxis(ref)) +
                            (val * (AxisHi(layout, NamedAxis(ref)) - AxisLo(layout, NamedAxis(ref))))
                                \div 1000)
            /\ (ref = X2 \o DOMAIN_SUFFIX /\ val = 200) => res = Num(Px(160))
            /\ (ref = X2 \o DOMAIN_SUFFIX /\ val = 750) => res = Num(Px(325))

\* C4 witness: x1 = 0.75 of 'x2 domain', whose pixel span is [100,400], at 325
C4_Witness ==
    /\ fn = "mapAROCoordToPixel"
    /\ args.axref = "xref" /\ args.c = "x1" /\ args.offset = Undefined
    /\ args.aro.xref = X2 \o DOMAIN_SUFFIX /\ args.aro.x1 = 750
    /\ AxisLo(layout, XAXIS2) = Px(100) /\ AxisHi(layout, XAXIS2) = Px(400)
    /\ res = Num(Px(325))

\* the kinds of the four references of an annotation, as annotationTest got them
RefKinds ==
    << <<res.call.xref, res.xreftype>>, <<res.call.yref, res.yreftype>>,
       <<res.call.axref, res.axreftype>>, <<res.call.ayref, res.ayreftype>> >>

\* C5 as stated: 'paper' is paper, else the suffix ' domain' makes domain,
\* else range; so the reference makeAxRef builds for a kind has that kind.
C5_ClassifyThreeKinds ==
    fn = "annotationTest" =>
        /\ \A k \in 1..4 :
              RefKinds[k][2] = (IF RefKinds[k][1] = PAPER THEN "paper"
                                ELSE IF IsDomainRef(RefKinds[k][1]) THEN "domain"
                                ELSE "range")
        /\ res.xreftype = args.aroposx.ref
        /\ res.yreftype = args.aroposy.ref

\* C5 amended: 'paper' is paper, 'pixel' is pixel, else the suffix ' domain'
\* makes domain, else range; the reference makeAxRef builds for an axis id and
\* a kind has that kind and, for range and domain, names that axis.
C5_ClassifyWithPixel ==
    fn = "annotationTest" =>
        /\ \A k \in 1..4 :
              RefKinds[k][2] = (IF RefKinds[k][1] = PAPER THEN "paper"
                                ELSE IF RefKinds[k][1] = PIXEL THEN "pixel"
                                ELSE IF IsDomainRef(RefKinds[k][1]) THEN "domain"
                                ELSE "range")
        /\ res.xreftype = args.aroposx.ref
        /\ res.yreftype = args.aroposy.ref
        /\ res.xreftype # "paper" => NamedAxis(res.call.xref) = id2name(args.axispair[1])
        /\ res.yreftype # "paper" => NamedAxis(res.call.yref) = id2name(args.axispair[2])

\* C5 witness: 'x2 domain' built and classified as domain, the arrow in pixels
C5_Witness ==
    /\ fn = "annotationTest"
    /\ args.aroposx.ref = "domain" /\ args.axispair[1] = X2
    /\ res.call.xref = X2 \o DOMAIN_SUFFIX /\ res.xreftype = "domain"
    /\ res.call.axref = PIXEL /\ res.axreftype = "pixel"

\* C6: the box of a shape is x = map(xref, x0), y = map(yref, y1),
\* width = map(xref, x1) - map(xref, x0), height = map(yref, y0) - map(yref, y1),
\* each coordinate through its own reference, offset 0, the log taken on log
\* axes; it is a function of the layout's axes and the shape's fields.
C6_ShapeBox ==
    fn = "shapeToBBox" =>
        LET aro == res.aro
            mx(v) == ExpectedPixel(layout, "x", aro.xref, v, FALSE)
            my(v) == ExpectedPixel(layout, "y", aro.yref, v, FALSE)
        IN  /\ res.bbox.x = Num(mx(aro.x0))
            /\ res.bbox.y = Num(my(aro.y1))
            /\ res.bbox.width = Num(mx(aro.x1) - mx(aro.x0))
            /\ res.bbox.height = Num(my(aro.y0) - my(aro.y1))

\* C6 witness: a shape on the log axis x and the domain of y2, y1 on its top edge
C6_Witness ==
    /\ fn = "shapeToBBox"
    /\ res.aro.xref = X /\ layout[XAXIS].type = "log"
    /\ res.aro.yref = Y2 \o DOMAIN_SUFFIX
    /\ res.bbox.y = Num(mapDomainToPixel(layout, YAXIS2, 700))
    /\ res.bbox.width.v > 0 /\ res.bbox.height.v > 0

\* the ends of an image in its own units, by its anchors
ImageLowX(img) ==
    CASE img.xanchor = "left" -> img.x
      [] img.xanchor = "right" -> img.x - img.sizex
      [] img.xanchor = "center" -> img.x - img.sizex \div 2
ImageHighX(img) ==
    CASE img.xanchor = "left" -> img.x + img.sizex
      [] img.xanchor = "right" -> img.x
      [] img.xanchor = "center" -> img.x + img.sizex \div 2
ImageLowY(img) ==
    CASE img.yanchor = "bottom" -> img.y
      [] img.yanchor = "top" -> img.y - img.sizey
      [] img.yanchor = "middle" -> img.y - img.sizey \div 2
ImageHighY(img) ==
    CASE img.yanchor = "bottom" -> img.y + img.sizey
      [] img.yanchor = "top" -> img.y
      [] img.yanchor = "middle" -> img.y + img.sizey \div 2

ImageDone == fn = "imageToBBox" /\ ~res.threw

\* C7: the box of an image follows its anchors: left / right / center span
\* [x, x+sizex] / [x-sizex, x] / [x-sizex/2, x+sizex/2], bottom / top / middle
\* span [y, y+sizey] / [y-sizey, y] / [y-sizey/2, y+sizey/2]; x is the pixel of
\* the low horizontal end, width the pixel of the high end less x, y the pixel
\* of the high vertical end, height the pixel of the low end less y; every
\* mapping of value plus offset without taking a log, on log axes too.
C7_ImageBox ==
    ImageDone =>
        LET img == res.image
            mx(v) == ExpectedPixel(layout, "x", img.xref, v, TRUE)
            my(v) == ExpectedPixel(layout, "y", img.yref, v, TRUE)
        IN  /\ res.bbox.x = Num(mx(ImageLowX(img)))
            /\ res.bbox.width = Num(mx(ImageHighX(img)) - mx(ImageLowX(img)))
            /\ res.bbox.y = Num(my(ImageHighY(img)))
            /\ res.bbox.height = Num(my(ImageLowY(img)) - my(ImageHighY(img)))

\* C7 witness: an image right and top anchored on the log axes x2 and y
C7_Witness ==
    /\ ImageDone
    /\ res.image.xanchor = "right" /\ res.image.yanchor = "top"
    /\ res.image.xref = X2 /\ layout[XAXIS2].type = "log"
    /\ res.image.yref = Y /\ layout[YAXIS].type = "log"
    /\ res.bbox.width.v > 0 /\ res.bbox.height.v > 0

\* the pixels a length spans under a reference: signed, the slope times it
PixelEquivalent(lay, letter, ref, len) ==
    IF ref = PAPER THEN (len * (PaperHi(letter) - PaperLo(letter))) \div 1000
    ELSE IF IsDomainRef(ref)
    THEN (len * (AxisHi(lay, NamedAxis(ref)) - AxisLo(lay, NamedAxis(ref)))) \div 1000
    ELSE (len * (AxisHi(lay, NamedAxis(ref)) - AxisLo(lay, NamedAxis(ref))))
             \div (lay[NamedAxis(ref)].range[2] - lay[NamedAxis(ref)].range[1])

\* the x of the box of the same image anchored left
LeftAnchoredX == imageToBBox(layout, [res.image EXCEPT !.xanchor = "left"]).bbox.x

\* C8 as stated: the x of the left anchored box is the x of the center
\* anchored box minus the pixels of sizex/2.
C8_LeftIsCenterMinusHalf ==
    (ImageDone /\ res.image.xanchor = "center" /\ res.image.sizex > 0) =>
        LeftAnchoredX =
            Num(res.bbox.x.v - PixelEquivalent(layout, "x", res.image.xref, res.image.sizex \div 2))

\* C8 amended: the x of the left anchored box is the x of the center anchored
\* box plus the pixels of sizex/2.
C8_LeftIsCenterPlusHalf ==
    (ImageDone /\ res.image.xanchor = "center" /\ res.image.sizex > 0) =>
        LeftAnchoredX =
            Num(res.bbox.x.v + PixelEquivalent(layout, "x", res.image.xref, res.image.sizex \div 2))

\* C8 witness: a centered image on the range of x: sizex/2 = 0.75 is 22.5 pixels
C8_Witness ==
    /\ ImageDone /\ res.image.xanchor = "center"
    /\ res.image.xref = X /\ layout[XAXIS].type = "linear"
    /\ PixelEquivalent(layout, "x", X, res.image.sizex \div 2) = 20250
    /\ LeftAnchoredX.v - res.bbox.x.v = 20250

\* the value annotationTest works with: the log of a range value on a log axis
LogSpaceValue(ref, axistype, v) ==
    IF IsRangeRef(ref) /\ axistype = "log" THEN Log10(v) ELSE v

\* the anchor of an annotation along one axis, in pixels
ExpectedAnchor(letter, ref, axistype, c0) ==
    ExpectedPixel(layout, letter, ref, LogSpaceValue(ref, axistype, c0), TRUE)

\* the arrow length along one axis from what is given for that axis alone
ExpectedArrow(letter, ref, aref, axistype, c0, ac) ==
    IF aref = PIXEL \/ aref # ref
    THEN Num(ac)
    ELSE Num(ExpectedAnchor(letter, ref, axistype, ac) - ExpectedAnchor(letter, ref, axistype, c0))

C10_PixelArrowIsDelta ==
    fn = "annotationTest" =>
        LET c == res.call
        IN  /\ c.axref = PIXEL =>
                  /\ res.xpixels = Num(args.aroposx.pixel)
                  /\ res.anno0.ax = args.aroposx.pixel
                  /\ res.xabspixels.v + res.xpixels.v =
                        ExpectedAnchor("x", c.xref, c.xaxistype, c.x0) + args.aroposx.pixel
            /\ c.ayref = PIXEL =>
                  /\ res.ypixels = Num(args.aroposy.pixel)
                  /\ res.anno0.ay = args.aroposy.pixel
                  /\ res.yabspixels.v + res.ypixels.v =
                        ExpectedAnchor("y", c.yref, c.yaxistype, c.y0) + args.aroposy.pixel

\* C10 witness: 25 pixels from an anchor on the range of the log axis x
C10_Witness ==
    /\ fn = "annotationTest"
    /\ res.call.axref = PIXEL /\ res.call.xref = X /\ layout[XAXIS].type = "log"
    /\ res.xpixels = Num(Px(25))
    /\ res.xabspixels = Num(mapRangeToPixel(layout, XAXIS, 301, TRUE))


(***************************************************************************)
(* Failures                                                                *)
(***************************************************************************)
\* an anchor token imageToBBox has no case for
BadAnchor(img) == img.xanchor \notin xAnchors \/ img.yanchor \notin yAnchors

\* C12: imageToBBox fails on an xanchor outside left, center, right and on a
\* yanchor outside top, middle, bottom, and then returns no box at all; the
\* failure is that image's alone: the box of another object on the same plot
\* is what it was.
C12_BadAnchorFails ==
    fn = "imageOnPlot" =>
        /\ BadAnchor(res.image) => (res.threw /\ "bbox" \notin DOMAIN res)
        /\ ~BadAnchor(res.image) => (~res.threw /\ "bbox" \in DOMAIN res)
        /\ res.shapebbox = shapeToBBox(layout, res.shape)

\* C12 witness: an image anchored 'middle' in x, a yanchor token, next to a
\* shape whose box is known
C12_Witness ==
    /\ fn = "imageOnPlot"
    /\ res.image.xanchor = "middle" /\ res.image.yanchor = "middle"
    /\ res.threw /\ res.error = "Bad xanchor"
    /\ res.shapebbox.width.v > 0


(***************************************************************************)
(* Passes and axis mutations                                               *)
(***************************************************************************)
\* an axis of the mock entirely before or entirely after its switch to log
WholeAxis(axname, ax) ==
    \/ ax = testMock[axname]
    \/ ax = [type |-> "log",
             range |-> << Log10(testMock[axname].range[1]),
                          Log10(testMock[axname].range[2]) >>,
             domain |-> testMock[axname].domain]

====
